---- MODULE Spec2Model ----
(***************************************************************************)
(* Model of the MQL5-Tools python utilities:                               *)
(*   tools/trade_log_analyzer.py  (record parser, loader, metrics engine)  *)
(*   tools/mql_compiler.py        (compile_source)                         *)
(*                                                                         *)
(* Money amounts are small integers.  Python floats represent them and     *)
(* their sums exactly, so +, -, abs, max and comparisons are the integer   *)
(* ones; a float quotient a / b is kept as the reduced fraction <<n, d>>   *)
(* (two quotients of small integers are the same float exactly when they   *)
(* are the same fraction).                                                 *)
(***************************************************************************)
EXTENDS Integers, Sequences, FiniteSets, TLC

VARIABLES
    trades,      \* the Sequence[Trade] handed to summarize_trades
    summary,     \* <<>> until summarize_trades has run, then <<its result>>
    curve,       \* the local `curve` of the last summarize_trades run
    row,         \* the dict[str, str] handed to Trade.from_row
    filled,      \* how many of the columns the row's maker has gone through
    parsed,      \* <<>> until Trade.from_row has run, then <<its outcome>>
    file,        \* the CSV export at `path`, as load_trades reads it
    loaded,      \* <<>> until load_trades has run, then <<its outcome>>
    exists,      \* the paths for which Path.exists() is true
    environ,     \* os.getenv("MQL_COMPILER")
    call,        \* the arguments of the compile_source call, <<>> before it
    compiled,    \* <<>> until compile_source has run, then <<its outcome>>
    started      \* whether compile_source reached subprocess.run

metricsVars == <<trades, summary, curve>>

parserVars == <<row, filled, parsed>>

loaderVars == <<file, loaded>>

compilerVars == <<exists, environ, call, compiled, started>>

vars ==
    <<trades, summary, curve, row, filled, parsed, file, loaded, exists,
      environ, call, compiled, started>>

----------------------------------------------------------------------------
(* Bounds and input sets of the metrics engine.                            *)

MaxTrades == 3
MaxTime == 2

\* <<profit, swap, commission>> of the trades offered to the engine:
\* cash flows 2, -3 and 0 (a positive profit eaten by the commission).
CashParts == { <<3, 0, -1>>, <<-2, -1, 0>>, <<1, 0, -1>> }

\* The fields of Trade the metrics engine reads.  Timestamps are instants
\* 1..MaxTime; inputs are drawn with open_time <= close_time.
Trades ==
    { [open_time |-> o, close_time |-> c, profit |-> p[1], swap |-> p[2],
       commission |-> p[3]] :
        o \in 1..MaxTime, c \in 1..MaxTime, p \in CashParts }

TradeInputs == { t \in Trades : t.open_time <= t.close_time }

----------------------------------------------------------------------------
(* Python values.                                                          *)

None == <<"None">>

\* datetime.isoformat(): the ISO-8601 text of an instant.
isoformat(t) == <<"iso", t>>

Abs(x) == IF x < 0 THEN -x ELSE x

Max2(a, b) == IF a >= b THEN a ELSE b

Min2(a, b) == IF a <= b THEN a ELSE b

RECURSIVE Gcd(_, _)
Gcd(a, b) == IF b = 0 THEN a ELSE Gcd(b, a % b)

\* The float n / d for d # 0, as a reduced fraction with a positive
\* denominator.
Quot(n, d) ==
    LET g == Gcd(Abs(n), Abs(d))
        sn == IF d < 0 THEN 0 - n ELSE n
    IN  <<sn \div g, Abs(d) \div g>>

\* The float 0.0 where the code writes the literal.
Zero == <<0, 1>>

\* float("inf")
Inf == <<1, 0>>

----------------------------------------------------------------------------
(* trade_log_analyzer.py: the metrics engine.                              *)

cash_flow(t) == t.profit + t.swap + t.commission

\* sum(t.cash_flow for t in trades if t.cash_flow > 0), left to right.
RECURSIVE gross_profit(_)
gross_profit(ts) ==
    IF ts = <<>> THEN 0
    ELSE gross_profit(SubSeq(ts, 1, Len(ts) - 1))
             + (IF cash_flow(ts[Len(ts)]) > 0 THEN cash_flow(ts[Len(ts)]) ELSE 0)

RECURSIVE gross_loss_no_abs(_)
gross_loss_no_abs(ts) ==
    IF ts = <<>> THEN 0
    ELSE gross_loss_no_abs(SubSeq(ts, 1, Len(ts) - 1))
             + (IF cash_flow(ts[Len(ts)]) < 0 THEN cash_flow(ts[Len(ts)]) ELSE 0)

\* sum(abs(t.cash_flow) for t in trades if t.cash_flow < 0)
RECURSIVE gross_loss(_)
gross_loss(ts) ==
    IF ts = <<>> THEN 0
    ELSE gross_loss(SubSeq(ts, 1, Len(ts) - 1))
             + (IF cash_flow(ts[Len(ts)]) < 0 THEN Abs(cash_flow(ts[Len(ts)])) ELSE 0)

\* One step of a stable insertion: t goes after every element whose key is
\* <= its own.
RECURSIVE InsertStable(_, _)
InsertStable(s, t) ==
    IF s = <<>> THEN <<t>>
    ELSE IF Head(s).close_time <= t.close_time
         THEN <<Head(s)>> \o InsertStable(Tail(s), t)
         ELSE <<t>> \o s

\* A sort that is not stable: trades of equal close time come out in the
\* reverse of their input order.
RECURSIVE sorted_by_close_time_unstable(_)
sorted_by_close_time_unstable(ts) ==
    IF ts = <<>> THEN <<>>
    ELSE InsertStable(sorted_by_close_time_unstable(Tail(ts)), Head(ts))

\* sorted(trades, key=lambda t: t.close_time): a new list, stable.
RECURSIVE sorted_by_close_time(_)
sorted_by_close_time(ts) ==
    IF ts = <<>> THEN <<>>
    ELSE InsertStable(sorted_by_close_time(SubSeq(ts, 1, Len(ts) - 1)),
                      ts[Len(ts)])

RECURSIVE Accumulate(_, _)
Accumulate(ts, cumulative) ==
    IF ts = <<>> THEN <<>>
    ELSE LET c == cumulative + cash_flow(Head(ts))
         IN  <<[time |-> Head(ts).close_time, value |-> c]>>
                 \o Accumulate(Tail(ts), c)

equity_curve_unsorted(ts) == Accumulate(ts, 0)

equity_curve(ts) == Accumulate(sorted_by_close_time(ts), 0)

\* float("-inf") as the running peak; any value is above it.
NegInf == [neg_inf |-> TRUE, v |-> 0]

Fin(v) == [neg_inf |-> FALSE, v |-> v]

PeakMax(peak, value) ==
    IF peak.neg_inf THEN Fin(value) ELSE Fin(Max2(peak.v, value))

RECURSIVE DrawdownLoop(_, _, _)
DrawdownLoop(c, peak, max_dd) ==
    IF c = <<>> THEN max_dd
    ELSE LET p == PeakMax(peak, Head(c).value)
         IN  DrawdownLoop(Tail(c), p, Max2(max_dd, p.v - Head(c).value))

max_drawdown_from_zero(c) == DrawdownLoop(c, Fin(0), 0)

\* Highest point minus lowest point, wherever they lie.
max_drawdown_range(c) ==
    IF c = <<>> THEN 0
    ELSE LET vs == { c[i].value : i \in 1..Len(c) }
         IN  (CHOOSE hi \in vs : \A v \in vs : hi >= v)
                 - (CHOOSE lo \in vs : \A v \in vs : lo <= v)

max_drawdown(c) == DrawdownLoop(c, NegInf, 0)

RECURSIVE MinOpen(_)
MinOpen(ts) ==
    IF Len(ts) = 1 THEN ts[1].open_time
    ELSE Min2(Head(ts).open_time, MinOpen(Tail(ts)))

RECURSIVE MaxClose(_)
MaxClose(ts) ==
    IF Len(ts) = 1 THEN ts[1].close_time
    ELSE Max2(Head(ts).close_time, MaxClose(Tail(ts)))

\* sum(1 for t in trades if t.cash_flow > 0)
RECURSIVE Wins(_)
Wins(ts) ==
    IF ts = <<>> THEN 0
    ELSE Wins(SubSeq(ts, 1, Len(ts) - 1))
             + (IF cash_flow(ts[Len(ts)]) > 0 THEN 1 ELSE 0)

EmptySummary ==
    [total_trades |-> 0, gross_profit |-> 0, gross_loss |-> 0,
     net_profit |-> 0, win_rate |-> Zero, profit_factor |-> Zero,
     average_trade |-> Zero, max_drawdown |-> 0,
     start_date |-> None, end_date |-> None]

\* The summary of a non-empty collection, given its equity curve.
Summarize(ts, c) ==
    LET gp == gross_profit(ts)
        gl == gross_loss(ts)
        net == gp - gl
        total == Len(ts)
    IN  [total_trades |-> total,
         gross_profit |-> gp,
         gross_loss |-> gl,
         net_profit |-> net,
         win_rate |-> IF total # 0 THEN Quot(Wins(ts), total) ELSE Zero,
         profit_factor |-> IF gl # 0 THEN Quot(gp, gl) ELSE Inf,
         average_trade |-> IF total # 0 THEN Quot(net, total) ELSE Zero,
         max_drawdown |-> max_drawdown(c),
         start_date |-> isoformat(MinOpen(ts)),
         end_date |-> isoformat(MaxClose(ts))]

summarize_trades_pf_zero(ts) ==
    IF ts = <<>> THEN EmptySummary
    ELSE LET s == Summarize(ts, equity_curve(ts))
         IN  [s EXCEPT !.profit_factor =
                  IF s.gross_loss # 0 /\ s.gross_profit # 0
                  THEN Quot(s.gross_profit, s.gross_loss)
                  ELSE IF s.gross_profit # 0 THEN Inf ELSE Zero]

summarize_trades_empty_inf(ts) ==
    IF ts = <<>> THEN [EmptySummary EXCEPT !.profit_factor = Inf]
    ELSE Summarize(ts, equity_curve(ts))

summarize_trades(ts) ==
    IF ts = <<>> THEN EmptySummary
    ELSE Summarize(ts, equity_curve(ts))

----------------------------------------------------------------------------
(* trade_log_analyzer.py: the record parser, Trade.from_row.               *)
(*                                                                         *)
(* A text is a sequence of tokens: a run of digits ("2024", "5"), a        *)
(* separator, a blank " ", or a word.  Rows are dict[str, str];            *)
(* parse_float also takes None, the value csv.DictReader stores for a      *)
(* column the data row is too short to fill, so numeric columns may hold   *)
(* it.                                                                     *)

Columns ==
    <<"Ticket", "Open Time", "Type", "Volume", "Symbol", "Price", "SL",
      "TP", "Close Time", "Close Price", "Commission", "Swap", "Profit">>

\* An outcome of evaluating an expression: a value, or a raised exception.
Ok(v) == [ok |-> TRUE, val |-> v]

Raise(type, arg) == [ok |-> FALSE, err |-> [type |-> type, args |-> arg]]

\* str.strip(): the text without its leading and trailing blanks.
RECURSIVE lstrip(_)
lstrip(text) ==
    IF text # <<>> /\ Head(text) = " " THEN lstrip(Tail(text)) ELSE text

RECURSIVE rstrip(_)
rstrip(text) ==
    IF text # <<>> /\ text[Len(text)] = " "
    THEN rstrip(SubSeq(text, 1, Len(text) - 1))
    ELSE text

strip(text) == rstrip(lstrip(text))

DigitValue(tok) ==
    CASE tok = "0" -> 0
      [] tok = "5" -> 5
      [] tok = "01" -> 1
      [] tok = "02" -> 2
      [] tok = "00" -> 0
      [] tok = "09" -> 9
      [] tok = "2024" -> 2024

IsDigits(tok) == tok \in {"0", "5", "00", "01", "02", "09", "2024"}

\* The text is number tokens with exactly these separators between them.
Matches(text, seps) ==
    /\ Len(text) = 2 * Len(seps) + 1
    /\ \A k \in 1..Len(text) :
           IF k % 2 = 1 THEN IsDigits(text[k]) ELSE text[k] = seps[k \div 2]

\* The instant a matched timestamp denotes: its day of the month (all the
\* timestamps used share the year, the month and the time of day).
InstantOf(text) == DigitValue(text[5])

\* datetime.strptime(text, fmt) for the four formats tried, in order.
attempted_formats ==
    << <<".", ".", " ", ":", ":">>,
       <<".", ".", " ", ":">>,
       <<"-", "-", " ", ":", ":">>,
       <<"-", "-", " ", ":">> >>

\* datetime.fromisoformat: YYYY-MM-DD, then optionally any one separator
\* and HH[:MM[:SS]].
IsIsoFormat(text) ==
    \/ Matches(text, <<"-", "-">>)
    \/ /\ Len(text) \in {7, 9, 11}
       /\ Matches(SubSeq(text, 1, 5), <<"-", "-">>)
       /\ ~IsDigits(text[6])
       /\ Matches(SubSeq(text, 7, Len(text)),
                  SubSeq(<<":", ":">>, 1, (Len(text) - 7) \div 2))

parse_dt(value) ==
    LET text == strip(value)
    IN  IF \E f \in 1..Len(attempted_formats) :
               Matches(text, attempted_formats[f])
        THEN Ok(InstantOf(text))
        ELSE IF IsIsoFormat(text)
             THEN Ok(InstantOf(text))
             ELSE Raise("ValueError", "Invalid isoformat string")

\* float(text) accepts an optional sign and digits (of the tokens used).
IsFloatLiteral(text) ==
    \/ Len(text) = 1 /\ IsDigits(text[1])
    \/ Len(text) = 2 /\ text[1] = "-" /\ IsDigits(text[2])

FloatOf(text) ==
    IF text[1] = "-" THEN 0 - DigitValue(text[2]) ELSE DigitValue(text[1])

\* An Optional[float]: None, or a float.
Some(v) == <<"float", v>>

parse_float_zero_is_none(value) ==
    IF value = None THEN Ok(None)
    ELSE LET text == strip(value)
         IN  IF text = <<>> THEN Ok(None)
             ELSE IF IsFloatLiteral(text)
                  THEN IF FloatOf(text) = 0 THEN Ok(None)
                       ELSE Ok(Some(FloatOf(text)))
                  ELSE Raise("ValueError", "could not convert string to float")

parse_float(value) ==
    IF value = None THEN Ok(None)
    ELSE LET text == strip(value)
         IN  IF text = <<>> THEN Ok(None)
             ELSE IF IsFloatLiteral(text)
                  THEN Ok(Some(FloatOf(text)))
                  ELSE Raise("ValueError", "could not convert string to float")

\* x or 0.0 on an Optional[float]: None and 0.0 are falsy.
OrZero(x) == IF x = None THEN 0 ELSE x[2]

\* row.get(col, default)
Get(r, col, default) == IF col \in DOMAIN r THEN r[col] ELSE default

Subscript_get(r, col) == Ok(Get(r, col, <<>>))

\* row[col]
Subscript(r, col) ==
    IF col \in DOMAIN r THEN Ok(r[col]) ELSE Raise("KeyError", col)

\* The keyword arguments of cls(...), each evaluated from the row.
StrField(r, col) == Ok(strip(Get(r, col, <<>>)))

TimeField(r, col) ==
    LET v == Subscript(r, col)
    IN  IF v.ok THEN parse_dt(v.val) ELSE v

FloatField(r, col) ==
    LET x == parse_float(Get(r, col, <<"0">>))
    IN  IF x.ok THEN Ok(OrZero(x.val)) ELSE x

OptionalField(r, col) == parse_float(Get(r, col, <<>>))

Argument(r, col) ==
    CASE col \in {"Ticket", "Type", "Symbol"} -> StrField(r, col)
      [] col \in {"Open Time", "Close Time"} -> TimeField(r, col)
      [] col \in {"SL", "TP"} -> OptionalField(r, col)
      [] OTHER -> FloatField(r, col)

\* Trade.from_row(row): the arguments are evaluated in the order written,
\* and the first exception leaves the call.
from_row(r) ==
    LET a == [k \in 1..Len(Columns) |-> Argument(r, Columns[k])]
        failed == { k \in 1..Len(Columns) : ~a[k].ok }
    IN  IF failed # {}
        THEN a[CHOOSE k \in failed : \A j \in failed : k <= j]
        ELSE Ok([ticket |-> a[1].val, open_time |-> a[2].val,
                 type |-> a[3].val, volume |-> a[4].val,
                 symbol |-> a[5].val, open_price |-> a[6].val,
                 sl |-> a[7].val, tp |-> a[8].val,
                 close_time |-> a[9].val, close_price |-> a[10].val,
                 commission |-> a[11].val, swap |-> a[12].val,
                 profit |-> a[13].val])

----------------------------------------------------------------------------
(* Rows handed to the record parser.                                       *)

MaxEdits == 2

\* The row of a well-formed export line.
GoodRow ==
    [c \in { Columns[k] : k \in 1..Len(Columns) } |->
        CASE c = "Ticket" -> <<"1001">>
          [] c = "Open Time" ->
                 <<"2024", ".", "01", ".", "01", " ", "09", ":", "00", ":", "00">>
          [] c = "Type" -> <<"buy">>
          [] c = "Symbol" -> <<"EURUSD">>
          [] c = "Close Time" ->
                 <<"2024", ".", "01", ".", "02", " ", "09", ":", "00", ":", "00">>
          [] c \in {"Commission", "Swap"} -> <<"-", "5">>
          [] OTHER -> <<"5">>]

\* What a row may hold in a column instead.
TimeTexts ==
    { <<"2024", ".", "01", ".", "02", " ", "09", ":", "00">>,
      <<"2024", "-", "01", "-", "01", " ", "09", ":", "00", ":", "00">>,
      <<"2024", "-", "01", "-", "02", "T", "09", ":", "00">>,
      <<" ", "2024", "-", "01", "-", "02", " ", "09", ":", "00", " ">>,
      <<"2024", "/", "01", "/", "02", " ", "09", ":", "00">>,
      <<"2024", ".", "01", ".", "02", "T", "09", ":", "00", ":", "00">>,
      <<>> }

FloatTexts ==
    { <<>>, <<" ">>, <<"0">>, <<"-", "0">>, <<" ", "5", " ">>, <<"abc">>,
      <<"-">> }

StrTexts == { <<>>, <<" ", "EURUSD", " ">> }

Alternatives(col) ==
    CASE col \in {"Ticket", "Type", "Symbol"} -> StrTexts
      [] col \in {"Open Time", "Close Time"} -> TimeTexts
      [] OTHER -> FloatTexts \cup {None}

\* r with one more key.
With(r, col, v) == [c \in DOMAIN r \cup {col} |-> IF c = col THEN v ELSE r[c]]

\* How many of the first n columns r lacks or holds with another text than
\* the well-formed line.
Edits(r, n) ==
    Cardinality({ k \in 1..n : Columns[k] \notin DOMAIN r
                                   \/ r[Columns[k]] # GoodRow[Columns[k]] })

----------------------------------------------------------------------------
(* trade_log_analyzer.py: the trade collection loader, load_trades.        *)
(*                                                                         *)
(* A file is its header (the columns csv.DictReader keys every row by),    *)
(* its data lines, and whether csv.Sniffer finds a delimiter in it.        *)

MaxRows == 3

\* Data lines of an export: three the record parser accepts (the last one
\* too short to fill TP and Profit) and two it refuses.
SampleLines ==
    << GoodRow,
       [GoodRow EXCEPT
            !["Close Time"] = <<"2024", "-", "01", "-", "02", "T", "09", ":", "00">>,
            !["Profit"] = <<"-", "5">>],
       [GoodRow EXCEPT !["TP"] = None, !["Profit"] = None],
       [GoodRow EXCEPT !["Volume"] = <<"abc">>],
       [GoodRow EXCEPT
            !["Open Time"] = <<"2024", "/", "01", "/", "02", " ", "09", ":", "00">>] >>

AllColumns == { Columns[k] : k \in 1..Len(Columns) }

Headers == { AllColumns, AllColumns \ {"Close Time"}, AllColumns \ {"SL"} }

\* The row csv.DictReader yields for data line i.
DictRow(f, i) == [c \in f.header |-> f.lines[i][c]]

load_trades_skip_malformed(f) ==
    IF ~f.delimited
    THEN Raise("csv.Error", "Could not determine delimiter")
    ELSE LET out == [i \in 1..Len(f.lines) |-> from_row(DictRow(f, i))]
             good == SelectSeq(out, LAMBDA o : o.ok)
         IN  Ok([i \in 1..Len(good) |-> good[i].val])

\* load_trades(path): sniff the dialect, then one from_row per row; an
\* exception of from_row leaves the comprehension and the call as it is.
load_trades(f) ==
    IF ~f.delimited
    THEN Raise("csv.Error", "Could not determine delimiter")
    ELSE LET out == [i \in 1..Len(f.lines) |-> from_row(DictRow(f, i))]
             failed == { i \in 1..Len(f.lines) : ~out[i].ok }
         IN  IF failed # {}
             THEN out[CHOOSE i \in failed : \A j \in failed : i <= j]
             ELSE Ok([i \in 1..Len(f.lines) |-> out[i].val])

----------------------------------------------------------------------------
(* mql_compiler.py.  A path is <<stem, suffix>>; the empty string is <<>>. *)

Sources == { <<"expert", ".mq4">>, <<"expert", ".MQ4">>, <<"expert", ".mq5">> }

Compilers == { <<"metaeditor", ".exe">>, <<"metaeditor64", ".exe">> }

Outputs == { <<"build", ".ex5">> }

ExitCodes == {0, 1, 3}

\* How the process subprocess.run starts may end: with an exit code, or by
\* outliving the timeout (subprocess.TimeoutExpired).
ProcessEnds ==
    [kind : {"exit"}, rc : ExitCodes] \cup {[kind |-> "timeout", rc |-> 0]}

\* str.lower() on the suffixes used.
Lower(suffix) == IF suffix = ".MQ4" THEN ".mq4" ELSE suffix

default_output_path(source) ==
    <<source[1], IF Lower(source[2]) = ".mq4" THEN ".ex4" ELSE ".ex5">>

\* CompilerConfig.build_command
build_command(config, source, output) ==
    LET target == IF output # None THEN output ELSE default_output_path(source)
    IN  (IF config.wine THEN << <<"wine">> >> ELSE <<>>)
            \o << <<"exe", config.compiler_path>>,
                  <<"/compile:", source>>,
                  <<"/out:", target>> >>
            \o config.extra_args

\* CompilerResult.succeeded
succeeded(result) == result.returncode = 0

compile_source_compiler_first(source, compiler, output, wine, extra_args, process) ==
    LET compiler_path == IF compiler # None THEN compiler ELSE environ
    IN  IF compiler_path = None \/ compiler_path = <<>>
        THEN [out |-> Raise("FileNotFoundError",
                            "Compiler path not provided and MQL_COMPILER is not set."),
              started |-> FALSE]
        ELSE IF compiler_path \notin exists
        THEN [out |-> Raise("FileNotFoundError", "Compiler executable not found"),
              started |-> FALSE]
        ELSE IF source \notin exists
        THEN [out |-> Raise("FileNotFoundError", "Source file not found"),
              started |-> FALSE]
        ELSE LET config == [compiler_path |-> compiler_path, wine |-> wine,
                            extra_args |-> extra_args]
                 target == IF output # None THEN output
                           ELSE default_output_path(source)
             IN  IF process.kind = "timeout"
                 THEN [out |-> Raise("TimeoutExpired", "timed out"),
                       started |-> TRUE]
                 ELSE [out |-> Ok([command |-> build_command(config, source, target),
                                   returncode |-> process.rc,
                                   output_path |-> target]),
                       started |-> TRUE]

\* compile_source(source, compiler=, output=, wine=, extra_args=), and how
\* the compiler process ends if it is started.
compile_source(source, compiler, output, wine, extra_args, process) ==
    IF source \notin exists
    THEN [out |-> Raise("FileNotFoundError", "Source file not found"),
          started |-> FALSE]
    ELSE LET compiler_path == IF compiler # None THEN compiler ELSE environ
         IN  IF compiler_path = None \/ compiler_path = <<>>
             THEN [out |-> Raise("FileNotFoundError",
                                 "Compiler path not provided and MQL_COMPILER is not set."),
                   started |-> FALSE]
             ELSE LET config == [compiler_path |-> compiler_path, wine |-> wine,
                                 extra_args |-> extra_args]
                  IN  IF config.compiler_path \notin exists
                      THEN [out |-> Raise("FileNotFoundError",
                                          "Compiler executable not found"),
                            started |-> FALSE]
                      ELSE LET target == IF output # None THEN output
                                         ELSE default_output_path(source)
                               command == build_command(config, source, target)
                           IN  IF process.kind = "timeout"
                               THEN [out |-> Raise("TimeoutExpired", "timed out"),
                                     started |-> TRUE]
                               ELSE [out |-> Ok([command |-> command,
                                                 returncode |-> process.rc,
                                                 output_path |-> target]),
                                     started |-> TRUE]

----------------------------------------------------------------------------
(* The programs as state machines.  Each specification runs one of them    *)
(* and leaves the state of the others as Init sets it.                     *)

MetricsIdle ==
    /\ trades = <<>>
    /\ summary = <<>>
    /\ curve = <<>>

ParserIdle ==
    /\ row = <<>>
    /\ filled = 0
    /\ parsed = <<>>

LoaderIdle ==
    /\ file = [header |-> AllColumns, lines |-> <<>>, delimited |-> TRUE]
    /\ loaded = <<>>

CompilerIdle ==
    /\ exists = {}
    /\ environ = None
    /\ call = <<>>
    /\ compiled = <<>>
    /\ started = FALSE

Init ==
    /\ MetricsIdle
    /\ ParserIdle
    /\ LoaderIdle
    /\ CompilerIdle

InitLoader ==
    /\ MetricsIdle
    /\ ParserIdle
    /\ \E h \in Headers, d \in BOOLEAN :
           file = [header |-> h, lines |-> <<>>, delimited |-> d]
    /\ loaded = <<>>
    /\ CompilerIdle

\* The metrics engine: a caller collects trades and calls summarize_trades.

\* The caller adds one more trade to the collection (any order of times).
AppendTrade ==
    /\ Len(trades) < MaxTrades
    /\ \E t \in TradeInputs : trades' = Append(trades, t)
    /\ summary' = <<>>
    /\ curve' = <<>>
    /\ UNCHANGED <<parserVars, loaderVars, compilerVars>>

\* summarize_trades(trades)
SummarizeTrades ==
    /\ summary = <<>>
    /\ summary' = <<summarize_trades(trades)>>
    /\ curve' = IF trades = <<>> THEN <<>> ELSE equity_curve(trades)
    /\ UNCHANGED <<trades, parserVars, loaderVars, compilerVars>>

Next == AppendTrade \/ SummarizeTrades

Spec == Init /\ [][Next]_vars

\* The record parser: a row is made, then handed to Trade.from_row.

\* The row's maker goes through the next column: it stores the text of the
\* well-formed line, or (at most MaxEdits times) another text or nothing.
FillColumn ==
    /\ filled < Len(Columns)
    /\ filled' = filled + 1
    /\ \/ row' = With(row, Columns[filled + 1], GoodRow[Columns[filled + 1]])
       \/ /\ Edits(row, filled) < MaxEdits
          /\ \/ row' = row
             \/ \E v \in Alternatives(Columns[filled + 1]) :
                    row' = With(row, Columns[filled + 1], v)
    /\ UNCHANGED <<parsed, metricsVars, loaderVars, compilerVars>>

\* Trade.from_row(row)
FromRow ==
    /\ filled = Len(Columns)
    /\ parsed = <<>>
    /\ parsed' = <<from_row(row)>>
    /\ UNCHANGED <<row, filled, metricsVars, loaderVars, compilerVars>>

NextParser == FillColumn \/ FromRow

SpecParser == Init /\ [][NextParser]_vars

\* The loader: an export is written, then read by load_trades.

\* The export holds one more data line.
AppendLine ==
    /\ loaded = <<>>
    /\ Len(file.lines) < MaxRows
    /\ \E k \in 1..Len(SampleLines) :
           file' = [file EXCEPT !.lines = Append(@, SampleLines[k])]
    /\ UNCHANGED <<loaded, metricsVars, parserVars, compilerVars>>

\* load_trades(path)
LoadTrades ==
    /\ loaded = <<>>
    /\ loaded' = <<load_trades(file)>>
    /\ UNCHANGED <<file, metricsVars, parserVars, compilerVars>>

NextLoader == AppendLine \/ LoadTrades

SpecLoader == InitLoader /\ [][NextLoader]_vars

\* The compiler wrapper: files and MQL_COMPILER are set up, then
\* compile_source is called.

\* A source or a compiler executable appears on disk.
CreateFile ==
    /\ compiled = <<>>
    /\ \E p \in (Sources \cup Compilers) \ exists : exists' = exists \cup {p}
    /\ UNCHANGED <<environ, call, compiled, started>>
    /\ UNCHANGED <<metricsVars, parserVars, loaderVars>>

\* MQL_COMPILER is set, to a path or to the empty string.
SetEnviron ==
    /\ compiled = <<>>
    /\ environ = None
    /\ \E v \in Compilers \cup {<<>>} : environ' = v
    /\ UNCHANGED <<exists, call, compiled, started>>
    /\ UNCHANGED <<metricsVars, parserVars, loaderVars>>

\* compile_source(...)
CompileSource ==
    /\ compiled = <<>>
    /\ \E source \in Sources, compiler \in Compilers \cup {None},
          output \in Outputs \cup {None}, wine \in BOOLEAN,
          extra_args \in {<<>>, << <<"/q">> >>}, process \in ProcessEnds :
           LET r == compile_source(source, compiler, output, wine,
                                   extra_args, process)
           IN  /\ call' = <<[source |-> source, compiler |-> compiler,
                             output |-> output, wine |-> wine,
                             extra_args |-> extra_args, process |-> process]>>
               /\ compiled' = <<r.out>>
               /\ started' = r.started
    /\ UNCHANGED <<exists, environ>>
    /\ UNCHANGED <<metricsVars, parserVars, loaderVars>>

NextCompiler == CreateFile \/ SetEnviron \/ CompileSource

SpecCompiler == Init /\ [][NextCompiler]_vars

----------------------------------------------------------------------------
(* Properties of the metrics engine.                                       *)

Done == summary # <<>>

\* The trades in the order given by the permutation p of 1..Len(ts).
Permuted(ts, p) == [i \in 1..Len(ts) |-> ts[p[i]]]

Reorderings(ts) == { Permuted(ts, p) : p \in Permutations(1..Len(ts)) }

DistinctCloseTimes(ts) ==
    \A i, j \in 1..Len(ts) : i # j => ts[i].close_time # ts[j].close_time

\* The cash flows of the collection in the order equity_curve visits them.
CashInCloseOrder ==
    LET st == sorted_by_close_time(trades)
    IN  [i \in 1..Len(st) |-> cash_flow(st[i])]

RECURSIVE SumCash(_, _)
SumCash(ts, idx) ==
    IF idx = {} THEN 0
    ELSE LET i == CHOOSE i \in idx : TRUE
         IN  cash_flow(ts[i]) + SumCash(ts, idx \ {i})

\* C1 (as claimed): every reordering of the collection, ties in close time
\* included, summarizes to the same value in every Summary field.
C1_OrderIndependent ==
    Done => \A r \in Reorderings(trades) : summarize_trades(r) = summary[1]

\* C1 (amended): every reordering agrees on every field but max_drawdown,
\* and also on max_drawdown when no two trades share a close timestamp.
C1_OrderIndependentUpToTies ==
    Done =>
        \A r \in Reorderings(trades) :
            LET s == summarize_trades(r)
            IN  /\ [s EXCEPT !.max_drawdown = 0]
                       = [summary[1] EXCEPT !.max_drawdown = 0]
                /\ DistinctCloseTimes(trades)
                       => s.max_drawdown = summary[1].max_drawdown

\* C1 witness: a summarized collection of trades with distinct close times,
\* given out of close-time order, with a drawdown.
C1_Witness ==
    /\ Done
    /\ Len(trades) >= 2
    /\ DistinctCloseTimes(trades)
    /\ trades[1].close_time > trades[2].close_time
    /\ summary[1].max_drawdown > 0

\* C2 (as claimed): max_drawdown >= 0 for a non-empty collection, and 0
\* when the per-trade cash flows are non-decreasing in close-time order.
C2_ZeroWhenCashFlowsNonDecreasing ==
    (Done /\ trades # <<>>) =>
        /\ summary[1].max_drawdown >= 0
        /\ (\A k \in 1..(Len(trades) - 1) :
                CashInCloseOrder[k] <= CashInCloseOrder[k + 1])
               => summary[1].max_drawdown = 0

\* C2 (amended): max_drawdown >= 0 for a non-empty collection, and 0 when
\* the cumulative cash flow is non-decreasing in close-time order, that is
\* when every trade after the first has a cash flow >= 0.
C2_ZeroWhenEquityNonDecreasing ==
    (Done /\ trades # <<>>) =>
        /\ summary[1].max_drawdown >= 0
        /\ (\A k \in 2..Len(trades) : CashInCloseOrder[k] >= 0)
               => summary[1].max_drawdown = 0

\* C2 witness: a first trade that loses, followed only by gains.
C2_Witness ==
    /\ Done
    /\ Len(trades) = 3
    /\ CashInCloseOrder[1] < 0
    /\ CashInCloseOrder[2] > 0
    /\ CashInCloseOrder[3] > 0
    /\ summary[1].max_drawdown = 0

\* C3: profit_factor is gross_profit / gross_loss when gross_loss # 0, +inf
\* when gross_loss = 0 in a non-empty collection, 0.0 for the empty one.
C3_ProfitFactorPolicy ==
    Done =>
        LET s == summary[1]
        IN  /\ trades = <<>> => s.profit_factor = <<0, 1>>
            /\ (trades # <<>> /\ s.gross_loss = 0)
                   => s.profit_factor = <<1, 0>>
            /\ (trades # <<>> /\ s.gross_loss # 0)
                   => /\ s.profit_factor[2] > 0
                      /\ s.profit_factor[1] * s.gross_loss
                             = s.gross_profit * s.profit_factor[2]

\* C3 witness: every trade broke even, and the profit factor is +inf.
C3_Witness ==
    /\ Done
    /\ Len(trades) >= 2
    /\ \A i \in 1..Len(trades) : cash_flow(trades[i]) = 0
    /\ summary[1].profit_factor = <<1, 0>>

\* C4: the empty collection summarizes to zeros and None dates.
C4_EmptySummary ==
    (Done /\ trades = <<>>) =>
        summary[1] = [total_trades |-> 0, gross_profit |-> 0,
                      gross_loss |-> 0, net_profit |-> 0,
                      win_rate |-> <<0, 1>>, profit_factor |-> <<0, 1>>,
                      average_trade |-> <<0, 1>>, max_drawdown |-> 0,
                      start_date |-> <<"None">>, end_date |-> <<"None">>]

\* C4 witness: summarize_trades has run on the empty collection.
C4_Witness == Done /\ trades = <<>>

\* C5: gross_profit sums the positive cash flows, gross_loss the magnitudes
\* of the negative ones, both are >= 0 and net_profit is their difference.
C5_GrossAndNet ==
    Done =>
        LET s == summary[1]
            pos == { i \in 1..Len(trades) : cash_flow(trades[i]) > 0 }
            neg == { i \in 1..Len(trades) : cash_flow(trades[i]) < 0 }
        IN  /\ s.gross_profit = SumCash(trades, pos)
            /\ s.gross_loss = 0 - SumCash(trades, neg)
            /\ s.gross_profit >= 0
            /\ s.gross_loss >= 0
            /\ s.net_profit = s.gross_profit - s.gross_loss

\* C5 witness: a collection with a gain, a loss and a break-even trade.
C5_Witness ==
    /\ Done
    /\ \E i, j, k \in 1..Len(trades) :
           /\ cash_flow(trades[i]) > 0
           /\ cash_flow(trades[j]) < 0
           /\ cash_flow(trades[k]) = 0
           /\ trades[k].profit > 0

\* C10: max_drawdown is the largest curve[i].value - curve[j].value over
\* i <= j (0 for the empty curve); a one-point curve has drawdown 0.
C10_LargestPeakToTrough ==
    Done =>
        LET n == Len(curve)
            declines == { curve[ij[1]].value - curve[ij[2]].value :
                              ij \in { p \in (1..n) \X (1..n) : p[1] <= p[2] } }
        IN  /\ n = Len(trades)
            /\ n = 0 => summary[1].max_drawdown = 0
            /\ n = 1 => summary[1].max_drawdown = 0
            /\ n > 0 => /\ summary[1].max_drawdown \in declines
                        /\ \A d \in declines : summary[1].max_drawdown >= d

\* C10 witness: a curve whose only point is negative.
C10_Witness ==
    /\ Done
    /\ Len(curve) = 1
    /\ curve[1].value < 0
    /\ summary[1].max_drawdown = 0

\* p lists the positions of ts in close-time order, positions of equal close
\* time in increasing order.
StableOrder(ts, p) ==
    \A i, j \in 1..Len(ts) :
        i < j => \/ ts[p[i]].close_time < ts[p[j]].close_time
                 \/ /\ ts[p[i]].close_time = ts[p[j]].close_time
                    /\ p[i] < p[j]

\* c has one point per trade of ts: the i-th point carries the close time of
\* the i-th trade in stable close-time order and the total cash flow of the
\* first i trades in that order.
RunningTotals(ts, c) ==
    /\ Len(c) = Len(ts)
    /\ \A i, j \in 1..Len(c) : i < j => c[i].time <= c[j].time
    /\ \E p \in Permutations(1..Len(ts)) :
           /\ StableOrder(ts, p)
           /\ \A i \in 1..Len(ts) :
                  /\ c[i].time = ts[p[i]].close_time
                  /\ c[i].value = SumCash(ts, { p[k] : k \in 1..i })

\* C11: the step that computes the equity curve yields one point per trade,
\* in non-decreasing close-time order with trades of equal close time in
\* input order, each point the running total of cash flow in that order;
\* the step leaves the caller's sequence of trades as it was.
C11_StableRunningTotals ==
    [][(summary = <<>> /\ summary' # <<>>)
           => /\ trades' = trades
              /\ RunningTotals(trades, curve')]_vars

\* C11 witness: a summarized collection that is still out of close-time
\* order, whose first two trades share a close time and differ in cash
\* flow, and whose third closes before them; the curve takes the third
\* trade first, then the first, then the second.
C11_Witness ==
    /\ Done
    /\ Len(trades) = 3
    /\ trades[1].close_time = trades[2].close_time
    /\ cash_flow(trades[1]) # cash_flow(trades[2])
    /\ trades[3].close_time < trades[1].close_time
    /\ Len(curve) = 3
    /\ curve[1].value = cash_flow(trades[3])
    /\ curve[2].value = cash_flow(trades[3]) + cash_flow(trades[1])
    /\ curve[2].time = curve[3].time

----------------------------------------------------------------------------
(* Properties of the record parser.                                        *)

Parsed == parsed # <<>>

ColumnIndex(col) == CHOOSE k \in 1..Len(Columns) : Columns[k] = col

\* The Trade field a column is stored in.
FieldOf(t, col) ==
    CASE col = "Ticket" -> t.ticket
      [] col = "Open Time" -> t.open_time
      [] col = "Type" -> t.type
      [] col = "Volume" -> t.volume
      [] col = "Symbol" -> t.symbol
      [] col = "Price" -> t.open_price
      [] col = "SL" -> t.sl
      [] col = "TP" -> t.tp
      [] col = "Close Time" -> t.close_time
      [] col = "Close Price" -> t.close_price
      [] col = "Commission" -> t.commission
      [] col = "Swap" -> t.swap
      [] col = "Profit" -> t.profit

TimeColumns == {"Open Time", "Close Time"}

StrColumns == {"Ticket", "Type", "Symbol"}

OptionalColumns == {"SL", "TP"}

FloatColumns ==
    {"Volume", "Price", "Close Price", "Commission", "Swap", "Profit"}

\* The column is absent, or holds a value its parser accepts.
WellFormed(r, col) ==
    col \in DOMAIN r =>
        CASE col \in StrColumns -> TRUE
          [] col \in TimeColumns -> parse_dt(r[col]).ok
          [] OTHER -> parse_float(r[col]).ok

\* The column is absent, None, or holds only blanks.
Blank(r, col) ==
    \/ col \notin DOMAIN r
    \/ r[col] = None
    \/ \A k \in 1..Len(r[col]) : r[col][k] = " "

\* A row with both timestamps, every present column well-formed, parses,
\* and each absent column takes its default.
AbsentColumnsDefault ==
    (/\ TimeColumns \subseteq DOMAIN row
     /\ \A k \in 1..Len(Columns) : WellFormed(row, Columns[k]))
        => /\ parsed[1].ok
           /\ \A c \in StrColumns \ DOMAIN row :
                  FieldOf(parsed[1].val, c) = <<>>
           /\ \A c \in OptionalColumns \ DOMAIN row :
                  FieldOf(parsed[1].val, c) = <<"None">>
           /\ \A c \in FloatColumns \ DOMAIN row :
                  FieldOf(parsed[1].val, c) = 0

C7_NumericDefaults ==
    (Parsed /\ parsed[1].ok) =>
        /\ \A c \in OptionalColumns :
               FieldOf(parsed[1].val, c)
                   = IF Blank(row, c) THEN <<"None">>
                     ELSE <<"float", FloatOf(strip(row[c]))>>
        /\ \A c \in FloatColumns :
               FieldOf(parsed[1].val, c)
                   = IF Blank(row, c) THEN 0 ELSE FloatOf(strip(row[c]))

\* C7 witness: SL given as "0" parsed to 0.0 beside a TP that is blank
\* or None and parsed to None.
C7_Witness ==
    /\ Parsed
    /\ parsed[1].ok
    /\ "SL" \in DOMAIN row
    /\ row["SL"] = <<"0">>
    /\ parsed[1].val.sl = <<"float", 0>>
    /\ "TP" \in DOMAIN row
    /\ parsed[1].val.tp = <<"None">>

----------------------------------------------------------------------------
(* Properties of the loader.                                               *)

Loaded == loaded # <<>>

\* The data rows the record parser refuses.
Refused ==
    { i \in 1..Len(file.lines) : ~from_row(DictRow(file, i)).ok }

FirstRefused == CHOOSE i \in Refused : \A j \in Refused : i <= j

\* The row number an exception carries, 0 when it carries none.
RowNumberOf(e) == IF "row" \in DOMAIN e THEN e.row ELSE 0

\* A successful load returns the Trade of every data row, in file order.
OneTradePerRow ==
    loaded[1].ok =>
        /\ Len(loaded[1].val) = Len(file.lines)
        /\ \A i \in 1..Len(file.lines) :
               loaded[1].val[i] = from_row(DictRow(file, i)).val

\* C8 (as claimed): load_trades returns one Trade per data row in file
\* order or fails; a row the record parser refuses fails the whole load,
\* and the failure carries the number of that row.
C8_FailureCarriesRowNumber ==
    Loaded =>
        /\ OneTradePerRow
        /\ (file.delimited /\ Refused # {})
               => /\ ~loaded[1].ok
                  /\ RowNumberOf(loaded[1].err) = FirstRefused

\* C8 (amended): as claimed, except that the failure is the record
\* parser's exception for the first refused row, unchanged: it carries no
\* row number.
C8_FailureIsParserException ==
    Loaded =>
        /\ OneTradePerRow
        /\ (file.delimited /\ Refused # {})
               => /\ ~loaded[1].ok
                  /\ loaded[1].err = from_row(DictRow(file, FirstRefused)).err
                  /\ RowNumberOf(loaded[1].err) = 0
        /\ (file.delimited /\ Refused = {}) => loaded[1].ok

\* C8 witness: a load failed on a refused row that follows an accepted one
\* and precedes another.
C8_Witness ==
    /\ Loaded
    /\ Len(file.lines) = 3
    /\ Refused = {2}
    /\ ~loaded[1].ok
    /\ loaded[1].err.type = "ValueError"

----------------------------------------------------------------------------
(* Properties of compile_source.                                           *)

Compiled == compiled # <<>>

\* The compiler path the call resolves: the argument, else MQL_COMPILER.
Resolved == IF call[1].compiler # <<"None">> THEN call[1].compiler ELSE environ

SourceExists == call[1].source \in exists

PathResolved == Resolved # <<"None">> /\ Resolved # <<>>

RaisedFileNotFound(msg) ==
    /\ ~compiled[1].ok
    /\ compiled[1].err = [type |-> "FileNotFoundError", args |-> msg]
    /\ ~started

\* C9: the process is started only after the source exists, a compiler
\* path is resolved and the compiler exists, checked in that order; the
\* first failing check raises FileNotFoundError with no process started;
\* every exit code yields a CompilerResult with succeeded iff the code is 0
\* and output_path the requested output or the .ex4/.ex5 default.
C9_ChecksBeforeProcess ==
    Compiled =>
        /\ ~SourceExists => RaisedFileNotFound("Source file not found")
        /\ (SourceExists /\ ~PathResolved)
               => RaisedFileNotFound(
                      "Compiler path not provided and MQL_COMPILER is not set.")
        /\ (SourceExists /\ PathResolved /\ Resolved \notin exists)
               => RaisedFileNotFound("Compiler executable not found")
        /\ started
               => (SourceExists /\ PathResolved /\ Resolved \in exists)
        /\ (SourceExists /\ PathResolved /\ Resolved \in exists) => started
        /\ (started /\ call[1].process.kind = "exit")
               => /\ compiled[1].ok
                  /\ compiled[1].val.returncode = call[1].process.rc
                  /\ succeeded(compiled[1].val) <=> (call[1].process.rc = 0)
                  /\ compiled[1].val.output_path
                         = IF call[1].output # <<"None">> THEN call[1].output
                           ELSE <<call[1].source[1],
                                  IF call[1].source[2] \in {".mq4", ".MQ4"}
                                  THEN ".ex4" ELSE ".ex5">>

\* C9 witness: the compiler ran on a .mq4 source, found through
\* MQL_COMPILER, and exited with code 3; the result reports the .ex4 path.
C9_Witness ==
    /\ Compiled
    /\ started
    /\ call[1].compiler = <<"None">>
    /\ call[1].output = <<"None">>
    /\ call[1].source[2] = ".mq4"
    /\ call[1].process = [kind |-> "exit", rc |-> 3]
    /\ compiled[1].ok
    /\ ~succeeded(compiled[1].val)
    /\ compiled[1].val.output_path = <<"expert", ".ex4">>

====
